---- MODULE Spec2Model ----
(***************************************************************************)
(* Order placement, stock reservation and order status handling of the     *)
(* quickcart e-commerce backend (OrderService over OrderRepository, on a   *)
(* PostgreSQL data source used at its default READ COMMITTED isolation).   *)
(*                                                                         *)
(* Every request is a task that runs between awaits; each action below is  *)
(* the code from the completion of one awaited database call to the issue  *)
(* of the next one, so that tasks interleave exactly at the awaits.        *)
(***************************************************************************)
EXTENDS Integers, Sequences, FiniteSets, TLC

\* Number of request tasks that may be in flight together.
MaxProcs == 2

Procs == 1..MaxProcs

\* ------------------------------------------------------------------------
\* Database contents at start-up: two products and two client users.
\* ------------------------------------------------------------------------
Products == {1, 2}

InitStock == [p \in Products |-> IF p = 1 THEN 5 ELSE 10]

InitPrice == [p \in Products |-> IF p = 1 THEN 1000 ELSE 1500]

\* Rows of the users table.  "ghost" is an authenticated identifier whose
\* row is gone; "admin" is the administrator.
Users == {"u1", "u2", "admin"}

NoOne == "-"

\* OrderStatus enum.
Pending == "Pending"

Processing == "Processing"

Shipped == "Shipped"

Delivered == "Delivered"

OrderStatus == {Pending, Processing, Shipped, Delivered}

\* UserRole enum.
Admin == "Admin"

Client == "Client"

UserRole == {Admin, Client}

\* ------------------------------------------------------------------------
\* Request payloads (CreateOrderDto.items) the tasks may submit.
\* ------------------------------------------------------------------------
Item(p, q) == [productId |-> p, quantity |-> q]

Requests ==
  { <<Item(1, 3)>>,
    <<Item(1, 2)>>,
    <<Item(2, 2)>>,
    <<Item(2, 2), Item(1, 3)>>,
    <<Item(1, 2), Item(2, 2)>>,
    <<Item(1, 2), Item(1, 2)>>,
    <<Item(1, 6), Item(1, 6)>>,
    <<Item(3, 2)>>,
    <<Item(1, 6)>>,
    <<Item(1, 0)>>,
    <<Item(1, 1000)>>,
    << >> }

\* Catalog prices an administrator may set through the product update.
NewPrices == {2000}

VARIABLES
  stock,    \* products.stock, committed value per product
  price,    \* products.price, committed value per product
  orders,   \* committed rows of orders, each with its order_items
  task,     \* the request tasks: operation, position and locals
  tx,       \* uncommitted writes of each task's open transaction
  lock,     \* row lock on each product row: the task holding it, or 0
  sessions, \* committed rows of checkout_sessions
  now       \* current time, in hours

vars == <<stock, price, orders, task, tx, lock, sessions, now>>

\* ------------------------------------------------------------------------
\* Pure helpers
\* ------------------------------------------------------------------------
RECURSIVE SumSeq(_)
SumSeq(s) == IF s = << >> THEN 0 ELSE Head(s) + SumSeq(Tail(s))

ProductIdsOf(items) == [k \in 1..Len(items) |-> items[k].productId]

SeqRange(s) == {s[k] : k \in 1..Len(s)}

\* Quantity a request asks of product p (0 when p is not in the request).
RequestedOf(items, p) ==
  SumSeq([k \in 1..Len(items) |->
            IF items[k].productId = p THEN items[k].quantity ELSE 0])

\* Variant of validateCreateOrderData without the test for repeated products.
validateCreateOrderDataRepeats(items) ==
  IF Len(items) = 0 THEN "BadRequest"
  ELSE IF \E k \in 1..Len(items) : items[k].quantity <= 0 THEN "BadRequest"
  ELSE IF \E k \in 1..Len(items) : items[k].quantity > 999 THEN "BadRequest"
  ELSE "ok"

\* Variant of validateCreateOrderData without the upper limit of a quantity.
validateCreateOrderDataNoMax(items) ==
  IF Len(items) = 0 THEN "BadRequest"
  ELSE IF Len(items) # Cardinality(SeqRange(ProductIdsOf(items))) THEN "BadRequest"
  ELSE IF \E k \in 1..Len(items) : items[k].quantity <= 0 THEN "BadRequest"
  ELSE "ok"

\* OrderService.validateCreateOrderData
validateCreateOrderData(items) ==
  IF Len(items) = 0 THEN "BadRequest"
  ELSE IF Len(items) # Cardinality(SeqRange(ProductIdsOf(items))) THEN "BadRequest"
  ELSE IF \E k \in 1..Len(items) : items[k].quantity <= 0 THEN "BadRequest"
  ELSE IF \E k \in 1..Len(items) : items[k].quantity > 999 THEN "BadRequest"
  ELSE "ok"

\* OrderRepository.checkProductsAvailability, on the committed stock stk
checkProductsAvailability(items, stk) ==
  [k \in 1..Len(items) |->
     [productId |-> items[k].productId,
      available |-> IF items[k].productId \in Products
                    THEN stk[items[k].productId] ELSE 0,
      requested |-> items[k].quantity]]

\* Variant of insufficientStock that also takes the entries whose request
\* equals the stock.
insufficientStockOrEqual(availability) ==
  SelectSeq(availability, LAMBDA a : a.available <= a.requested)

\* OrderService.create: the entries with available < requested
insufficientStock(availability) ==
  SelectSeq(availability, LAMBDA a : a.available < a.requested)

\* OrderRepository.create step 3: item lines with the price read in the
\* transaction
itemsWithPrices(items, prc) ==
  [k \in 1..Len(items) |->
     [productId |-> items[k].productId,
      quantity |-> items[k].quantity,
      price |-> prc[items[k].productId]]]

\* Variant of totalAmountOf that adds the unit prices, dropping the quantity.
totalAmountOfNoQuantity(iwp) ==
  SumSeq([k \in 1..Len(iwp) |-> iwp[k].price])

\* OrderRepository.create step 3: totalAmount += product.price * quantity
totalAmountOf(iwp) ==
  SumSeq([k \in 1..Len(iwp) |-> iwp[k].price * iwp[k].quantity])

\* OrderRepository.create step 3: the stock test of one line
stockCheckFails(item, stk) == stk[item.productId] < item.quantity

\* Variant of decrementBy that takes one unit per line whatever the quantity.
decrementByOne(quantity) == 1

\* OrderRepository.create step 5: stock: () => `stock - ${quantity}`
decrementBy(quantity) == quantity

\* ------------------------------------------------------------------------
\* Tasks and transactions
\* ------------------------------------------------------------------------
ZeroRow == [p \in Products |-> 0]

\* A checkout session entity before it is filled (CheckoutSession columns
\* userId, stripeSessionId, cartData, status, expiresAt; NoOne is NULL).
NoSession ==
  [userId |-> NoOne, stripeSessionId |-> NoOne,
   cartData |-> [items |-> << >>, total |-> 0],
   status |-> "pending", expiresAt |-> 0]

IdleTask ==
  [op |-> "none", pc |-> "idle", userId |-> NoOne, role |-> Client,
   items |-> << >>, snapStock |-> ZeroRow, snapPrice |-> ZeroRow,
   iwp |-> << >>, total |-> 0, i |-> 0, result |-> "none",
   report |-> << >>, orderId |-> 0, newStatus |-> Pending,
   hasStatus |-> FALSE, newAddress |-> NoOne, seenStatus |-> Pending,
   seenOwner |-> NoOne, productId |-> 0, newPrice |-> 0,
   sessionId |-> 0, entity |-> NoSession, errorType |-> "none",
   delta |-> 0, newStock |-> 0]

\* The writes a task has made through its transaction manager and that are
\* not committed yet: the order row, the order_items rows, and the amount
\* taken off each product row it has updated (and locked).
NoTx == [order |-> FALSE, items |-> << >>, dec |-> ZeroRow]

TxPcs == {"txUser", "txProducts", "txSaveOrder", "txSaveItem", "txDecr",
          "txCommit"}

Done(t, res) == [t EXCEPT !.pc = "done", !.result = res]

\* Row locks released when the transaction of task p ends.
Released(p) == [q \in Products |-> IF lock[q] = p THEN 0 ELSE lock[q]]

\* The order row OrderRepository.create builds (step 4) with its items.
newOrder(p) ==
  [userId |-> task[p].userId,
   totalAmount |-> task[p].total,
   status |-> Pending,
   deliveryAddress |-> NoOne,
   deleted |-> FALSE,
   items |-> tx[p].items,
   attempt |-> p]

\* dataSource.transaction: the callback returned, COMMIT publishes the
\* writes made through the manager.
commitOrders(p) == IF tx[p].order THEN Append(orders, newOrder(p)) ELSE orders

commitStock(p) == [q \in Products |-> stock[q] - tx[p].dec[q]]

\* Variant of rollbackStock for stock updates issued outside the transaction
\* manager: they survive the rollback.
rollbackStockKept(p) == commitStock(p)

\* dataSource.transaction: the callback threw, ROLLBACK drops them.
rollbackOrders(p) == orders

rollbackStock(p) == stock

Init ==
  /\ stock = InitStock
  /\ price = InitPrice
  /\ orders = << >>
  /\ task = [p \in Procs |-> IdleTask]
  /\ tx = [p \in Procs |-> NoTx]
  /\ lock = [q \in Products |-> 0]
  /\ sessions = << >>
  /\ now = 0

\* Ends the transaction of p by ROLLBACK with the given error.
Abort(p, t, res) ==
  /\ task' = [task EXCEPT ![p] = Done(t, res)]
  /\ orders' = rollbackOrders(p)
  /\ stock' = rollbackStock(p)
  /\ tx' = [tx EXCEPT ![p] = NoTx]
  /\ lock' = Released(p)
  /\ UNCHANGED price

\* ------------------------------------------------------------------------
\* OrderService.create / OrderRepository.create
\* ------------------------------------------------------------------------
\* OrderService.create up to its first await: validateCreateOrderData, for a
\* caller of callers and a request of requests.
PlaceStartWith(p, callers, requests) ==
  /\ task[p].pc = "idle"
  /\ \E u \in callers, its \in requests :
       LET t == [task[p] EXCEPT !.op = "place", !.userId = u, !.items = its]
       IN  task' = [task EXCEPT ![p] =
                      IF validateCreateOrderData(its) = "ok"
                      THEN [t EXCEPT !.pc = "check"]
                      ELSE Done(t, "BadRequest")]
  /\ UNCHANGED <<stock, price, orders, tx, lock>>
  /\ UNCHANGED <<sessions, now>>

PlaceStart(p) == PlaceStartWith(p, {"u1", "ghost"}, Requests)

\* checkProductsAvailability reads the committed stock; the service throws
\* UnprocessableEntityException when some line asks more than it read.
PlaceCheck(p) ==
  /\ task[p].pc = "check"
  /\ LET availability == checkProductsAvailability(task[p].items, stock)
         bad == insufficientStock(availability)
     IN  task' = [task EXCEPT ![p] =
                    IF Len(bad) > 0
                    THEN Done([task[p] EXCEPT !.report = bad], "Unprocessable")
                    ELSE [task[p] EXCEPT !.pc = "txUser"]]
  /\ UNCHANGED <<stock, price, orders, tx, lock>>
  /\ UNCHANGED <<sessions, now>>

\* OrderRepository.create step 1: the transaction opens, the user is read.
PlaceTxUser(p) ==
  /\ task[p].pc = "txUser"
  /\ IF task[p].userId \in Users
     THEN /\ task' = [task EXCEPT ![p].pc = "txProducts"]
          /\ UNCHANGED <<stock, price, orders, tx, lock>>
     ELSE Abort(p, task[p], "UserNotFound")
  /\ UNCHANGED <<sessions, now>>

\* OrderRepository.create steps 2 and 3: the products are read (committed
\* rows, no lock), existence and stock are tested, the total is computed.
PlaceTxProducts(p) ==
  /\ task[p].pc = "txProducts"
  /\ LET its == task[p].items
         ids == ProductIdsOf(its)
         found == {id \in SeqRange(ids) : id \in Products}
         missing == SelectSeq(ids, LAMBDA id : id \notin found)
         t == [task[p] EXCEPT !.snapStock = stock, !.snapPrice = price]
     IN  IF Cardinality(found) # Len(ids)
         THEN Abort(p, [t EXCEPT !.report = missing], "ProductsNotFound")
         ELSE IF \E k \in 1..Len(its) : stockCheckFails(its[k], stock)
         THEN Abort(p, t, "InsufficientTx")
         ELSE /\ task' = [task EXCEPT ![p] =
                   [t EXCEPT !.iwp = itemsWithPrices(its, price),
                             !.total = totalAmountOf(itemsWithPrices(its, price)),
                             !.pc = "txSaveOrder"]]
              /\ UNCHANGED <<stock, price, orders, tx, lock>>
  /\ UNCHANGED <<sessions, now>>

\* OrderRepository.create step 4: manager.save(order).
PlaceTxSaveOrder(p) ==
  /\ task[p].pc = "txSaveOrder"
  /\ tx' = [tx EXCEPT ![p].order = TRUE]
  /\ task' = [task EXCEPT ![p].pc = "txSaveItem", ![p].i = 1]
  /\ UNCHANGED <<stock, price, orders, lock>>
  /\ UNCHANGED <<sessions, now>>

\* OrderRepository.create step 5: manager.save(orderItem) of line i.
PlaceTxSaveItem(p) ==
  /\ task[p].pc = "txSaveItem"
  /\ LET line == task[p].iwp[task[p].i]
     IN  tx' = [tx EXCEPT ![p].items = Append(@,
                   [productId |-> line.productId,
                    quantity |-> line.quantity,
                    priceAtPurchase |-> line.price])]
  /\ task' = [task EXCEPT ![p].pc = "txDecr"]
  /\ UNCHANGED <<stock, price, orders, lock>>
  /\ UNCHANGED <<sessions, now>>

\* OrderRepository.create step 5: manager.update(Product, stock - quantity)
\* of line i.  The UPDATE waits for the row lock and holds it until the
\* transaction ends; it applies to the row as committed at that time.
PlaceTxDecr(p) ==
  /\ task[p].pc = "txDecr"
  /\ LET line == task[p].iwp[task[p].i]
     IN  /\ lock[line.productId] \in {0, p}
         /\ lock' = [lock EXCEPT ![line.productId] = p]
         /\ tx' = [tx EXCEPT ![p].dec[line.productId] =
                                   @ + decrementBy(line.quantity)]
  /\ task' = [task EXCEPT ![p] =
                IF task[p].i < Len(task[p].iwp)
                THEN [task[p] EXCEPT !.i = @ + 1, !.pc = "txSaveItem"]
                ELSE [task[p] EXCEPT !.pc = "txCommit"]]
  /\ UNCHANGED <<stock, price, orders>>
  /\ UNCHANGED <<sessions, now>>

\* OrderRepository.create step 6: the order is re-read and the transaction
\* commits; OrderService.create returns the order.
PlaceTxCommit(p) ==
  /\ task[p].pc = "txCommit"
  /\ orders' = commitOrders(p)
  /\ stock' = commitStock(p)
  /\ task' = [task EXCEPT ![p] =
                Done([task[p] EXCEPT !.orderId = Len(orders) + 1], "ok")]
  /\ tx' = [tx EXCEPT ![p] = NoTx]
  /\ lock' = Released(p)
  /\ UNCHANGED price
  /\ UNCHANGED <<sessions, now>>

\* Any statement of the open transaction may fail in the persistence layer
\* (connection loss, deadlock victim): the callback throws and the
\* transaction rolls back.
PlaceTxFail(p) ==
  /\ task[p].pc \in TxPcs
  /\ Abort(p, task[p], "TxError")
  /\ UNCHANGED <<sessions, now>>

\* Variant of ProductRepositoryUpdate whose price change is carried over to
\* the order_items rows of the product.
ProductRepositoryUpdateCascade(p) ==
  /\ task[p].pc = "idle"
  /\ \E id \in Products, np \in NewPrices :
       /\ lock[id] = 0
       /\ price' = [price EXCEPT ![id] = np]
       /\ orders' = [o \in 1..Len(orders) |->
            [orders[o] EXCEPT !.items =
               [k \in 1..Len(orders[o].items) |->
                  IF orders[o].items[k].productId = id
                  THEN [orders[o].items[k] EXCEPT !.priceAtPurchase = np]
                  ELSE orders[o].items[k]]]]
       /\ task' = [task EXCEPT ![p] =
                     Done([task[p] EXCEPT !.op = "setPrice", !.role = Admin,
                                          !.productId = id, !.newPrice = np],
                          "ok")]
  /\ UNCHANGED <<stock, tx, lock>>
  /\ UNCHANGED <<sessions, now>>

\* ------------------------------------------------------------------------
\* ProductRepository.update with a price in the update data: one UPDATE
\* statement on the product row.
\* ------------------------------------------------------------------------
ProductRepositoryUpdate(p) ==
  /\ task[p].pc = "idle"
  /\ \E id \in Products, np \in NewPrices :
       /\ lock[id] = 0
       /\ price' = [price EXCEPT ![id] = np]
       /\ task' = [task EXCEPT ![p] =
                     Done([task[p] EXCEPT !.op = "setPrice", !.role = Admin,
                                          !.productId = id, !.newPrice = np],
                          "ok")]
  /\ UNCHANGED <<stock, orders, tx, lock>>
  /\ UNCHANGED <<sessions, now>>

Next ==
  \E p \in Procs :
    \/ PlaceStart(p)
    \/ PlaceCheck(p)
    \/ PlaceTxUser(p)
    \/ PlaceTxProducts(p)
    \/ PlaceTxSaveOrder(p)
    \/ PlaceTxSaveItem(p)
    \/ PlaceTxDecr(p)
    \/ PlaceTxCommit(p)
    \/ PlaceTxFail(p)
    \/ ProductRepositoryUpdate(p)

Spec == Init /\ [][Next]_vars

\* ------------------------------------------------------------------------
\* Order status handling: OrderService.updateStatus, update and cancel on
\* a database that already holds an order.
\* ------------------------------------------------------------------------
\* Variant of validTransitions that also accepts staying in the same status.
validTransitionsOrSame(currentStatus) ==
  {currentStatus} \cup
  CASE currentStatus = Pending -> {Processing, Delivered}
    [] currentStatus = Processing -> {Shipped, Delivered}
    [] currentStatus = Shipped -> {Delivered}
    [] currentStatus = Delivered -> {}

\* OrderService.validateStatusTransition: validTransitions[currentStatus]
validTransitions(currentStatus) ==
  CASE currentStatus = Pending -> {Processing, Delivered}
    [] currentStatus = Processing -> {Shipped, Delivered}
    [] currentStatus = Shipped -> {Delivered}
    [] currentStatus = Delivered -> {}

\* OrderService.validateStatusTransition: TRUE when it throws Conflict
validateStatusTransitionFails(currentStatus, newStatus) ==
  newStatus \notin validTransitions(currentStatus)

\* Variant of canBeCancelled that also lets a Shipped order be cancelled.
canBeCancelledShipped(status) == status \in {Pending, Processing, Shipped}

\* Order.canBeCancelled
canBeCancelled(status) == status \in {Pending, Processing}

\* OrderRepository.findById: the row with that id, soft-deleted rows excluded
findById(id) == id \in 1..Len(orders) /\ ~orders[id].deleted

\* An order placed earlier by u1: two units of product 2 at 1500.
SeedOrder(st) ==
  [userId |-> "u1", totalAmount |-> 3000, status |-> st,
   deliveryAddress |-> "addr1", deleted |-> FALSE,
   items |-> <<[productId |-> 2, quantity |-> 2, priceAtPurchase |-> 1500]>>,
   attempt |-> 0]

\* Callers: identity and role handed to the service by the controller.
Callers == {[userId |-> "u1", role |-> Client],
            [userId |-> "u2", role |-> Client],
            [userId |-> "admin", role |-> Admin]}

\* Order identifiers of requests: the seeded order and one that was never
\* created.
OrderIds == {1, 2}

NewAddresses == {"addr2"}

InitStatus ==
  /\ stock = [InitStock EXCEPT ![2] = @ - 2]
  /\ price = InitPrice
  /\ \E st \in OrderStatus : orders = <<SeedOrder(st)>>
  /\ task = [p \in Procs |-> IdleTask]
  /\ tx = [p \in Procs |-> NoTx]
  /\ lock = [q \in Products |-> 0]
  /\ sessions = << >>
  /\ now = 0

Call(p, opname, c, id) ==
  [task[p] EXCEPT !.op = opname, !.userId = c.userId, !.role = c.role,
                  !.orderId = id]

Seen(t, id) ==
  [t EXCEPT !.seenStatus = orders[id].status, !.seenOwner = orders[id].userId]

\* Variant of UpdateStatusRead without the role gate.
UpdateStatusReadAnyRole(p) ==
  /\ task[p].pc = "idle"
  /\ \E c \in Callers, id \in OrderIds, st \in OrderStatus :
       LET t == [Call(p, "updateStatus", c, id) EXCEPT
                   !.newStatus = st, !.hasStatus = TRUE]
       IN  task' = [task EXCEPT ![p] =
             IF ~findById(id) THEN Done(t, "NotFound")
             ELSE IF validateStatusTransitionFails(orders[id].status, st)
                  THEN Done(Seen(t, id), "Conflict")
             ELSE [Seen(t, id) EXCEPT !.pc = "usWrite"]]
  /\ UNCHANGED <<stock, price, orders, tx, lock>>
  /\ UNCHANGED <<sessions, now>>

\* OrderService.updateStatus up to the write: role gate, findById,
\* validateStatusTransition.
UpdateStatusRead(p) ==
  /\ task[p].pc = "idle"
  /\ \E c \in Callers, id \in OrderIds, st \in OrderStatus :
       LET t == [Call(p, "updateStatus", c, id) EXCEPT
                   !.newStatus = st, !.hasStatus = TRUE]
       IN  task' = [task EXCEPT ![p] =
             IF c.role # Admin THEN Done(t, "Forbidden")
             ELSE IF ~findById(id) THEN Done(t, "NotFound")
             ELSE IF validateStatusTransitionFails(orders[id].status, st)
                  THEN Done(Seen(t, id), "Conflict")
             ELSE [Seen(t, id) EXCEPT !.pc = "usWrite"]]
  /\ UNCHANGED <<stock, price, orders, tx, lock>>
  /\ UNCHANGED <<sessions, now>>

\* OrderRepository.updateStatus: UPDATE orders SET status WHERE id.
UpdateStatusWrite(p) ==
  /\ task[p].pc = "usWrite"
  /\ orders' = [orders EXCEPT ![task[p].orderId].status = task[p].newStatus]
  /\ task' = [task EXCEPT ![p].pc = "reread"]
  /\ UNCHANGED <<stock, price, tx, lock>>
  /\ UNCHANGED <<sessions, now>>

\* OrderRepository.update / updateStatus: the closing findById; the service
\* throws NotFound when it returns null.
Reread(p) ==
  /\ task[p].pc = "reread"
  /\ task' = [task EXCEPT ![p] =
                Done(task[p], IF findById(task[p].orderId)
                              THEN "ok" ELSE "NotFound")]
  /\ UNCHANGED <<stock, price, orders, tx, lock>>
  /\ UNCHANGED <<sessions, now>>

\* OrderService.update up to the write: findById, ownership and Pending
\* test for clients, validateStatusTransition when a status is given.
UpdateRead(p) ==
  /\ task[p].pc = "idle"
  /\ \E c \in Callers, id \in OrderIds :
       \E dto \in {[hasStatus |-> TRUE, status |-> st, address |-> NoOne] :
                     st \in OrderStatus}
                  \cup {[hasStatus |-> FALSE, status |-> Pending, address |-> a] :
                          a \in NewAddresses} :
         LET t == [Call(p, "update", c, id) EXCEPT
                     !.newStatus = dto.status, !.hasStatus = dto.hasStatus,
                     !.newAddress = dto.address]
         IN  task' = [task EXCEPT ![p] =
               IF ~findById(id) THEN Done(t, "NotFound")
               ELSE IF c.role = Client /\ orders[id].userId # c.userId
                    THEN Done(Seen(t, id), "Forbidden")
               ELSE IF c.role = Client /\ orders[id].status # Pending
                    THEN Done(Seen(t, id), "Conflict")
               ELSE IF dto.hasStatus /\
                       validateStatusTransitionFails(orders[id].status, dto.status)
                    THEN Done(Seen(t, id), "Conflict")
               ELSE [Seen(t, id) EXCEPT !.pc = "upWrite"]]
  /\ UNCHANGED <<stock, price, orders, tx, lock>>
  /\ UNCHANGED <<sessions, now>>

\* OrderRepository.update: UPDATE orders SET <the given fields> WHERE id.
UpdateWrite(p) ==
  /\ task[p].pc = "upWrite"
  /\ orders' = [orders EXCEPT ![task[p].orderId] =
       IF task[p].hasStatus
       THEN [@ EXCEPT !.status = task[p].newStatus]
       ELSE [@ EXCEPT !.deliveryAddress = task[p].newAddress]]
  /\ task' = [task EXCEPT ![p].pc = "reread"]
  /\ UNCHANGED <<stock, price, tx, lock>>
  /\ UNCHANGED <<sessions, now>>

\* OrderService.cancel up to the write: findById, ownership test for
\* clients, canBeCancelled.
CancelRead(p) ==
  /\ task[p].pc = "idle"
  /\ \E c \in Callers, id \in OrderIds :
       LET t == Call(p, "cancel", c, id)
       IN  task' = [task EXCEPT ![p] =
             IF ~findById(id) THEN Done(t, "NotFound")
             ELSE IF c.role = Client /\ orders[id].userId # c.userId
                  THEN Done(Seen(t, id), "Forbidden")
             ELSE IF ~canBeCancelled(orders[id].status)
                  THEN Done(Seen(t, id), "Conflict")
             ELSE [Seen(t, id) EXCEPT !.pc = "caWrite"]]
  /\ UNCHANGED <<stock, price, orders, tx, lock>>
  /\ UNCHANGED <<sessions, now>>

\* Variant of CancelWrite that removes the items of the order it cancels.
CancelWriteDropItems(p) ==
  /\ task[p].pc = "caWrite"
  /\ LET id == task[p].orderId
     IN  IF id \in 1..Len(orders)
         THEN /\ orders' = [orders EXCEPT ![id].deleted = TRUE,
                                          ![id].items = << >>]
              /\ task' = [task EXCEPT ![p] = Done(task[p], "ok")]
         ELSE /\ orders' = orders
              /\ task' = [task EXCEPT ![p] = Done(task[p], "BadRequest")]
  /\ UNCHANGED <<stock, price, tx, lock>>
  /\ UNCHANGED <<sessions, now>>

\* Variant of CancelWrite that also gives the quantities of the order back to
\* the stock.
CancelWriteRestock(p) ==
  /\ task[p].pc = "caWrite"
  /\ LET id == task[p].orderId
     IN  IF id \in 1..Len(orders)
         THEN /\ orders' = [orders EXCEPT ![id].deleted = TRUE]
              /\ stock' = [q \in Products |->
                             stock[q] + RequestedOf(orders[id].items, q)]
              /\ task' = [task EXCEPT ![p] = Done(task[p], "ok")]
         ELSE /\ orders' = orders
              /\ stock' = stock
              /\ task' = [task EXCEPT ![p] = Done(task[p], "BadRequest")]
  /\ UNCHANGED <<price, tx, lock>>
  /\ UNCHANGED <<sessions, now>>

\* OrderRepository.cancel: softDelete(id) marks the row deleted; the service
\* throws BadRequest when no row was affected.
CancelWrite(p) ==
  /\ task[p].pc = "caWrite"
  /\ LET id == task[p].orderId
     IN  IF id \in 1..Len(orders)
         THEN /\ orders' = [orders EXCEPT ![id].deleted = TRUE]
              /\ task' = [task EXCEPT ![p] = Done(task[p], "ok")]
         ELSE /\ orders' = orders
              /\ task' = [task EXCEPT ![p] = Done(task[p], "BadRequest")]
  /\ UNCHANGED <<stock, price, tx, lock>>
  /\ UNCHANGED <<sessions, now>>

\* Variant of FindOne without the ownership test.
FindOneAnyOwner(p) ==
  /\ task[p].pc = "idle"
  /\ \E c \in Callers, id \in OrderIds :
       LET t == Call(p, "findOne", c, id)
       IN  task' = [task EXCEPT ![p] =
             IF ~findById(id) THEN Done(t, "NotFound")
             ELSE Done(Seen(t, id), "ok")]
  /\ UNCHANGED <<stock, price, orders, tx, lock>>
  /\ UNCHANGED <<sessions, now>>

\* Variant of FindOne that answers NotFound for the order of another user.
FindOneHidesOthers(p) ==
  /\ task[p].pc = "idle"
  /\ \E c \in Callers, id \in OrderIds :
       LET t == Call(p, "findOne", c, id)
       IN  task' = [task EXCEPT ![p] =
             IF ~findById(id) THEN Done(t, "NotFound")
             ELSE IF c.role = Client /\ orders[id].userId # c.userId
                  THEN Done(t, "NotFound")
             ELSE Done(Seen(t, id), "ok")]
  /\ UNCHANGED <<stock, price, orders, tx, lock>>
  /\ UNCHANGED <<sessions, now>>

\* OrderService.findOne: findById, then the ownership test for clients.
FindOne(p) ==
  /\ task[p].pc = "idle"
  /\ \E c \in Callers, id \in OrderIds :
       LET t == Call(p, "findOne", c, id)
       IN  task' = [task EXCEPT ![p] =
             IF ~findById(id) THEN Done(t, "NotFound")
             ELSE IF c.role = Client /\ orders[id].userId # c.userId
                  THEN Done(Seen(t, id), "Forbidden")
             ELSE Done(Seen(t, id), "ok")]
  /\ UNCHANGED <<stock, price, orders, tx, lock>>
  /\ UNCHANGED <<sessions, now>>

\* OrderService.getStats: role gate, then OrderRepository.getStats, which
\* only reads (the number of orders is kept in the task as what it read).
GetStats(p) ==
  /\ task[p].pc = "idle"
  /\ \E c \in Callers :
       LET t == [task[p] EXCEPT !.op = "getStats", !.userId = c.userId,
                                !.role = c.role]
       IN  task' = [task EXCEPT ![p] =
             IF c.role # Admin THEN Done(t, "Forbidden")
             ELSE Done([t EXCEPT !.total =
                          Cardinality({o \in 1..Len(orders) : ~orders[o].deleted})],
                       "ok")]
  /\ UNCHANGED <<stock, price, orders, tx, lock>>
  /\ UNCHANGED <<sessions, now>>

NextStatus ==
  \E p \in Procs :
    \/ FindOne(p)
    \/ GetStats(p)
    \/ UpdateStatusRead(p)
    \/ UpdateStatusWrite(p)
    \/ UpdateRead(p)
    \/ UpdateWrite(p)
    \/ Reread(p)
    \/ CancelRead(p)
    \/ CancelWrite(p)

SpecStatus == InitStatus /\ [][NextStatus]_vars

\* ========================================================================
\* Properties of order placement (checked under Spec)
\* ========================================================================
PlacedOk(p) ==
  task[p].op = "place" /\ task[p].pc = "done" /\ task[p].result = "ok"

PlaceFailed(p) ==
  task[p].op = "place" /\ task[p].pc = "done" /\ task[p].result # "ok"

\* Sum of the quantities of product q over the placements that succeeded.
ReservedOk(q) ==
  LET RECURSIVE Upto(_)
      Upto(n) == IF n = 0 THEN 0
                 ELSE Upto(n - 1) +
                      (IF PlacedOk(n) THEN RequestedOf(task[n].items, q) ELSE 0)
  IN  Upto(MaxProcs)

\* Sum of the quantities of product q over the committed order_items.
SoldIn(ords, q) ==
  SumSeq([o \in 1..Len(ords) |->
            SumSeq([k \in 1..Len(ords[o].items) |->
                      IF ords[o].items[k].productId = q
                      THEN ords[o].items[k].quantity ELSE 0])])

\* C1: for any interleaving of concurrent placements against a product with
\* initial stock S, the quantities of the placements that succeed sum to at
\* most S and the stock is never negative.
C1_NoOversell ==
  \A q \in Products : stock[q] >= 0 /\ ReservedOk(q) <= InitStock[q]

\* C2: product 1 at stock 5 and two concurrent placements of quantity 3 of
\* it, both run to their end: exactly one succeeds, the other fails with an
\* insufficient-stock error, the final stock is 2 and never -1.
C2_OneOfTwoSucceeds ==
  /\ stock[1] # -1
  /\ \A a, b \in Procs :
       ( /\ a # b
         /\ \A c \in Procs \ {a, b} : task[c].pc = "idle"
         /\ \A c \in {a, b} : /\ task[c].op = "place"
                              /\ task[c].userId = "u1"
                              /\ task[c].items = <<Item(1, 3)>>
                              /\ task[c].pc = "done"
                              /\ task[c].result # "TxError" )
       => /\ PlacedOk(a) # PlacedOk(b)
          /\ \E c \in {a, b} : task[c].result \in {"Unprocessable", "InsufficientTx"}
          /\ stock[1] = 2

\* C3: a placement that failed (validation, missing user, missing product,
\* stock test of any line, persistence failure after rows were written) has
\* left no order, no order item, no uncommitted write, no row lock, and no
\* stock change: every unit missing from a stock is in a committed order.
C3_AllOrNothing ==
  /\ \A p \in Procs : PlaceFailed(p) =>
       /\ \A o \in 1..Len(orders) : orders[o].attempt # p
       /\ tx[p] = NoTx
       /\ \A q \in Products : lock[q] # p
  /\ \A q \in Products : stock[q] = InitStock[q] - SoldIn(orders, q)

\* C3 witness: a placement failed in the persistence layer while writing its
\* second line, after the order row, an item row and a stock update of the
\* first line.
C3_Witness ==
  \E p \in Procs : PlaceFailed(p) /\ task[p].result = "TxError" /\ task[p].i = 2

\* C4: a successful placement has created one order, Pending, whose total is
\* the sum over the request lines of (price read in the transaction x
\* quantity), with one item per line carrying that quantity and that price.
C4_OrderMatchesRequest ==
  \A p \in Procs : PlacedOk(p) =>
    /\ Cardinality({o \in 1..Len(orders) : orders[o].attempt = p}) = 1
    /\ task[p].orderId \in 1..Len(orders)
    /\ LET o == orders[task[p].orderId]
           its == task[p].items
       IN  /\ o.attempt = p
           /\ o.status = Pending
           /\ o.userId = task[p].userId
           /\ Len(o.items) = Len(its)
           /\ \A k \in 1..Len(its) :
                /\ o.items[k].productId = its[k].productId
                /\ o.items[k].quantity = its[k].quantity
                /\ o.items[k].priceAtPurchase = task[p].snapPrice[its[k].productId]
           /\ o.totalAmount =
                SumSeq([k \in 1..Len(its) |->
                          task[p].snapPrice[its[k].productId] * its[k].quantity])

\* C4 witness: one line of quantity 2 at price 1500 gave an order of total
\* 3000 with one item of quantity 2 and priceAtPurchase 1500.
C4_Witness ==
  \E p \in Procs :
    /\ PlacedOk(p)
    /\ task[p].items = <<Item(2, 2)>>
    /\ orders[task[p].orderId].totalAmount = 3000
    /\ orders[task[p].orderId].items =
         <<[productId |-> 2, quantity |-> 2, priceAtPurchase |-> 1500]>>

\* C5: the step that completes a successful placement takes exactly the
\* ordered quantity off the stock of each ordered product and leaves the
\* stock of every other product as it was.
C5_StockDecrement ==
  [][\A p \in Procs :
       (task[p].pc # "done" /\ task'[p].op = "place" /\ task'[p].pc = "done"
        /\ task'[p].result = "ok")
       => \A q \in Products :
            stock'[q] = stock[q] - RequestedOf(task'[p].items, q)]_vars

\* C5 witness: a placement of quantity 2 of product 2 (stock 10) succeeded
\* and the stock is 8, that of product 1 untouched.
C5_Witness ==
  \E p \in Procs :
    /\ PlacedOk(p)
    /\ task[p].items = <<Item(2, 2)>>
    /\ stock[2] = 8
    /\ stock[1] = InitStock[1]

\* C6: a change of a product's catalog price leaves every existing order's
\* totalAmount and every existing order item's priceAtPurchase unchanged.
C6_PriceFrozen ==
  [][price' # price =>
       /\ Len(orders') >= Len(orders)
       /\ \A o \in 1..Len(orders) :
            /\ orders'[o].totalAmount = orders[o].totalAmount
            /\ orders'[o].items = orders[o].items]_vars

\* C6 witness: product 1 was ordered at price 1000, its catalog price is now
\* 2000 and the order item still carries 1000.
C6_Witness ==
  /\ price[1] = 2000
  /\ \E o \in 1..Len(orders) :
       \E k \in 1..Len(orders[o].items) :
         /\ orders[o].items[k].productId = 1
         /\ orders[o].items[k].priceAtPurchase = 1000

\* ========================================================================
\* Properties of order status handling (checked under SpecStatus)
\* ========================================================================
\* Transition table of the order status state machine.
TransitionTable ==
  {<<Pending, Processing>>, <<Pending, Delivered>>, <<Processing, Shipped>>,
   <<Processing, Delivered>>, <<Shipped, Delivered>>}

\* C7: an updateStatus call by an administrator on an existing order in
\* status `from`, asking for `to`, with (from, to) not in the transition
\* table, ends with a conflict error in the step that read the order and
\* writes nothing (Shipped rejects Pending, Delivered rejects everything,
\* X -> X is rejected).
C7_Closure ==
  [][\A p \in Procs :
       ( /\ task[p].pc = "idle"
         /\ task'[p].op = "updateStatus"
         /\ task'[p].role = Admin
         /\ findById(task'[p].orderId)
         /\ <<orders[task'[p].orderId].status, task'[p].newStatus>>
              \notin TransitionTable )
       => /\ task'[p].pc = "done"
          /\ task'[p].result = "Conflict"
          /\ orders' = orders]_vars

\* C7 witness: an administrator asked a Shipped order to go back to Pending
\* and got a conflict; the order is still Shipped.
C7_Witness ==
  \E p \in Procs :
    /\ task[p].op = "updateStatus" /\ task[p].role = Admin
    /\ task[p].pc = "done" /\ task[p].result = "Conflict"
    /\ task[p].newStatus = Pending
    /\ orders[task[p].orderId].status = Shipped

\* C8: over any interleaving of updateStatus, update and cancel calls, every
\* change of an order's persisted status is a pair of the transition table
\* (so a Delivered order never changes status again).
C8_ForwardOnly ==
  [][\A o \in 1..Len(orders) :
       orders'[o].status # orders[o].status
       => <<orders[o].status, orders'[o].status>> \in TransitionTable]_vars

\* C9: no step of an operation invoked with role Client (updateStatus, or
\* update carrying a status) changes the persisted status of any order.
C9_ClientNeverChangesStatus ==
  [][\A p \in Procs :
       (task'[p] # task[p] /\ task'[p].role = Client)
       => \A o \in 1..Len(orders) : orders'[o].status = orders[o].status]_vars

\* C10: a cancel call that reads a Shipped or Delivered order (the caller
\* being entitled to it) ends with a conflict error and writes nothing; a
\* cancel call by a Client who does not own the order fails and writes
\* nothing; and a cancel call succeeds only when the order it retrieved was
\* Pending or Processing and the caller is its owner or an Admin.
C10_CancelEligibility ==
  [][\A p \in Procs :
       /\ ( /\ task[p].pc = "idle"
            /\ task'[p].op = "cancel"
            /\ findById(task'[p].orderId) )
          => LET o == orders[task'[p].orderId]
                 entitled == task'[p].role = Admin \/ o.userId = task'[p].userId
             IN  /\ (entitled /\ o.status \in {Shipped, Delivered})
                      => /\ task'[p].pc = "done"
                         /\ task'[p].result = "Conflict"
                         /\ orders' = orders
                 /\ ~entitled
                      => /\ task'[p].pc = "done"
                         /\ task'[p].result = "Forbidden"
                         /\ orders' = orders
                 /\ task'[p].pc # "done"
                      => /\ task'[p].seenStatus = o.status
                         /\ task'[p].seenOwner = o.userId
       /\ ( /\ task'[p].op = "cancel"
            /\ task[p].pc # "done"
            /\ task'[p].pc = "done"
            /\ task'[p].result = "ok" )
          => /\ task'[p].seenStatus \in {Pending, Processing}
             /\ task'[p].role = Admin \/ task'[p].seenOwner = task'[p].userId
             /\ orders'[task'[p].orderId].deleted]_vars

\* C10 witness: the owner, a Client, cancelled the order it had retrieved as
\* Processing.
C10_Witness ==
  \E p \in Procs :
    /\ task[p].op = "cancel" /\ task[p].role = Client
    /\ task[p].pc = "done" /\ task[p].result = "ok"
    /\ task[p].seenStatus = Processing
    /\ orders[task[p].orderId].deleted

\* ========================================================================
\* Properties of order editing and access (checked under SpecStatus)
\* ========================================================================

\* The caller of task t may act on order id: administrators on every order,
\* clients on their own.
Entitled(t, id) == t.role = Admin \/ orders[id].userId = t.userId

\* C11: an update call, by a client on its own order or by an administrator,
\* that finds the order in a status other than Pending ends with Conflict
\* and leaves the order as it is.
C11_EditOnlyWhilePending ==
  [][\A p \in Procs :
       ( /\ task[p].pc = "idle"
         /\ task'[p].op = "update"
         /\ findById(task'[p].orderId)
         /\ orders[task'[p].orderId].status # Pending
         /\ Entitled(task'[p], task'[p].orderId) )
       => /\ task'[p].pc = "done"
          /\ task'[p].result = "Conflict"
          /\ orders' = orders]_vars

\* ========================================================================
\* Properties of the rejections of a placement (checked under Spec)
\* ========================================================================

\* Two lines of the request name the same product.
RepeatsProduct(items) ==
  \E j, k \in 1..Len(items) : j # k /\ items[j].productId = items[k].productId

\* C12: a placement whose request names a product in two lines ends with
\* BadRequest in the step that receives it, before the availability read and
\* before the transaction, whether the stock covers the lines or not, and
\* that step changes no stock, price, order, uncommitted write or row lock.
C12_RepeatedProductRejected ==
  [][\A p \in Procs :
       ( /\ task[p].pc = "idle"
         /\ task'[p].op = "place"
         /\ RepeatsProduct(task'[p].items) )
       => /\ task'[p].pc = "done"
          /\ task'[p].result = "BadRequest"
          /\ UNCHANGED <<stock, price, orders, tx, lock>>]_vars

\* C12 witness: a request repeating product 1 was rejected by validation
\* in a state where the stock of product 1 does not cover its lines.
C12_Witness ==
  \E p \in Procs :
    /\ task[p].op = "place" /\ task[p].pc = "done"
    /\ task[p].result = "BadRequest"
    /\ task[p].items = <<Item(1, 6), Item(1, 6)>>
    /\ stock[1] < 6

\* Product ids of the request, in request order, that are not in the catalog.
MissingIds(items) ==
  SelectSeq(ProductIdsOf(items), LAMBDA id : id \notin Products)

\* C18: a placement that passed validation and names a product that does not
\* exist has ended with the product-not-found error carrying the missing
\* ids, and has left no order.
C18_MissingProductReported ==
  \A p \in Procs :
    ( /\ task[p].op = "place" /\ task[p].pc = "done"
      /\ validateCreateOrderData(task[p].items) = "ok"
      /\ MissingIds(task[p].items) # << >> )
    => /\ task[p].result = "ProductsNotFound"
       /\ task[p].report = MissingIds(task[p].items)
       /\ \A o \in 1..Len(orders) : orders[o].attempt # p

\* The lines of a request that ask more than the stock stk has.
Offending(items, stk) ==
  {k \in 1..Len(items) : items[k].quantity > stk[items[k].productId]}

\* C19: when the service compares a request (all of whose products exist)
\* with the stock, the placement goes on to OrderRepository.create exactly
\* when no line asks more than the stock; otherwise it ends in that step
\* with the insufficient-stock error, whose list has one entry per offending
\* line and no other, each with the product, its stock and the quantity
\* asked, and the step changes no stock, order, uncommitted write or lock.
C19_InsufficientStockAborts ==
  [][\A p \in Procs :
       ( /\ task[p].pc = "check"
         /\ task'[p] # task[p]
         /\ MissingIds(task[p].items) = << >> )
       => LET its == task[p].items
              off == Offending(its, stock)
              rep == task'[p].report
          IN  IF off = {}
              THEN task'[p].pc = "txUser"
              ELSE /\ task'[p].pc = "done"
                   /\ task'[p].result = "Unprocessable"
                   /\ Len(rep) = Cardinality(off)
                   /\ \A k \in off : \E j \in 1..Len(rep) :
                        rep[j] = [productId |-> its[k].productId,
                                  available |-> stock[its[k].productId],
                                  requested |-> its[k].quantity]
                   /\ UNCHANGED <<stock, price, orders, tx, lock>>]_vars

\* C19 witness: a request of two lines was aborted with a list of one entry,
\* the line of product 1, whose stock another placement had taken.
C19_Witness ==
  \E p \in Procs :
    /\ task[p].op = "place" /\ task[p].pc = "done"
    /\ task[p].result = "Unprocessable"
    /\ task[p].items = <<Item(2, 2), Item(1, 3)>>
    /\ task[p].report = <<[productId |-> 1, available |-> 2, requested |-> 3]>>
    /\ tx[p] = NoTx

\* ========================================================================
\* Properties of order access (checked under SpecStatus)
\* ========================================================================

\* Task p takes, in this step, a findOne, update or cancel call of a client.
ClientCallStep(p) ==
  /\ task[p].pc = "idle"
  /\ task'[p].op \in {"findOne", "update", "cancel"}
  /\ task'[p].role = Client

\* The order of the call task p takes in this step exists and belongs to
\* another user.
OthersOrder(p) ==
  /\ findById(task'[p].orderId)
  /\ orders[task'[p].orderId].userId # task'[p].userId

\* C20 (as stated): a findOne, update or cancel call of a client on an
\* existing order of another user ends with the not-found error, the outcome
\* of the same call on an order that does not exist.
C20_CrossTenantNotFound ==
  [][\A p \in Procs :
       (ClientCallStep(p) /\ OthersOrder(p))
       => task'[p].pc = "done" /\ task'[p].result = "NotFound"]_vars

\* C20 (amended): a findOne, update or cancel call of a client on an existing
\* order of another user ends with Forbidden and changes nothing, while the
\* same call on an order that does not exist ends with NotFound: the two
\* outcomes differ.
C20_CrossTenantForbidden ==
  [][\A p \in Procs : ClientCallStep(p) =>
       /\ OthersOrder(p) =>
            /\ task'[p].pc = "done" /\ task'[p].result = "Forbidden"
            /\ UNCHANGED <<stock, price, orders, tx, lock>>
       /\ ~findById(task'[p].orderId) =>
            /\ task'[p].pc = "done" /\ task'[p].result = "NotFound"
            /\ UNCHANGED <<stock, price, orders, tx, lock>>]_vars

\* C20 witness: client u2 was refused order 1 of u1 by findOne with
\* Forbidden, and another client call on the absent order 2 ended NotFound.
C20_Witness ==
  /\ \E p \in Procs :
       /\ task[p].op = "findOne" /\ task[p].pc = "done"
       /\ task[p].userId = "u2" /\ task[p].orderId = 1
       /\ task[p].seenOwner = "u1"
       /\ task[p].result = "Forbidden"
  /\ \E q \in Procs :
       /\ task[q].op \in {"findOne", "update", "cancel"} /\ task[q].pc = "done"
       /\ task[q].role = Client /\ task[q].orderId = 2
       /\ task[q].result = "NotFound"

\* ========================================================================
\* Checkout sessions (StripeService)
\* ========================================================================

\* Latest hour the clock reaches.
MaxTime == 2

\* SESSION_EXPIRATION_HOURS, at its default.
ExpirationHours == 1

\* CheckoutSession.status
SessionStatus == {"pending", "completed", "expired"}

CartItem(p, q, pr) == [productId |-> p, quantity |-> q, price |-> pr]

\* CreateCheckoutSessionDto: the user and the cart (items and total) sent by
\* the client.
CheckoutDtos ==
  { [userId |-> "u2", items |-> <<CartItem(2, 1, 1500), CartItem(1, 1, 1000)>>,
     total |-> 2500] }

\* Session identifiers a request may carry; one that no row has yet is an
\* unknown identifier.
SessionIds == 1..MaxProcs

\* Stripe.errors.StripeError types the catch block names, "StripeError" for
\* its default branch.
StripeErrorTypes ==
  {"StripeCardError", "StripeRateLimitError", "StripeInvalidRequestError",
   "StripeAPIError", "StripeConnectionError", "StripeAuthenticationError",
   "StripeError"}

\* What stripe.checkout.sessions.create may throw: a Stripe error of any
\* type, or an error that is not a StripeError.
ThrownErrors == StripeErrorTypes \cup {"Error"}

\* The catch block of createCheckoutSessionWithCart: every Stripe error
\* becomes a BadRequestException, any other error is thrown again.
classifyError(errorType) ==
  IF errorType \in StripeErrorTypes THEN "BadRequest" ELSE "Error"

\* The identifier Stripe gives the hosted session.
StripeSessionId == "cs_test"

\* Variant of findPendingSession that looks the session up by id alone.
findSessionById(sessionId) == sessionId \in 1..Len(sessions)

\* checkoutSessionRepo.findOne({ where: { id: sessionId, status: 'pending' } })
\* finds a row.
findPendingSession(sessionId) ==
  /\ sessionId \in 1..Len(sessions)
  /\ sessions[sessionId].status = "pending"

\* checkoutSessionRepo.save(entity) of an entity that has an id: afterwards
\* the row holds the values of the entity.
saveSession(sessionId, entity) == [sessions EXCEPT ![sessionId] = entity]

\* The session an earlier createCheckoutSessionWithCart call of u1 has left:
\* pending, with its cart, the Stripe id, and the expiry set at hour 0.
SeedSession ==
  [userId |-> "u1",
   stripeSessionId |-> StripeSessionId,
   cartData |-> [items |-> <<CartItem(2, 2, 1500)>>, total |-> 3000],
   status |-> "pending",
   expiresAt |-> ExpirationHours]

InitCheckout ==
  /\ stock = InitStock
  /\ price = InitPrice
  /\ orders = << >>
  /\ task = [p \in Procs |-> IdleTask]
  /\ tx = [p \in Procs |-> NoTx]
  /\ lock = [q \in Products |-> 0]
  /\ sessions = <<SeedSession>>
  /\ now = 0

\* createCheckoutSessionWithCart steps 1 and 2: the expiry is computed, the
\* session is created pending with the cart of the request and saved.
CreateSave(p) ==
  /\ task[p].pc = "idle"
  /\ \E dto \in CheckoutDtos :
       LET checkoutSession ==
             [userId |-> dto.userId,
              stripeSessionId |-> NoOne,
              cartData |-> [items |-> dto.items, total |-> dto.total],
              status |-> "pending",
              expiresAt |-> now + ExpirationHours]
       IN  /\ sessions' = Append(sessions, checkoutSession)
           /\ task' = [task EXCEPT ![p] =
                [@ EXCEPT !.op = "createCheckout", !.pc = "stripe",
                          !.userId = dto.userId,
                          !.sessionId = Len(sessions) + 1,
                          !.entity = checkoutSession]]
  /\ UNCHANGED <<stock, price, orders, tx, lock, now>>

\* createCheckoutSessionWithCart steps 3 to 5, Stripe accepts: the line items
\* are built (the product look-ups only read, and their errors are
\* swallowed), the Stripe session is created, its id is set on the entity.
CreateStripeOk(p) ==
  /\ task[p].pc = "stripe"
  /\ task' = [task EXCEPT ![p].pc = "ckSave",
                          ![p].entity.stripeSessionId = StripeSessionId]
  /\ UNCHANGED <<stock, price, orders, tx, lock, sessions, now>>

\* Variant of CreateStripeError that takes back the row of the first save
\* when it is the latest row of the table.
CreateStripeErrorRollback(p) ==
  /\ task[p].pc = "stripe"
  /\ \E e \in ThrownErrors :
       task' = [task EXCEPT ![p] =
         Done([task[p] EXCEPT !.errorType = e], classifyError(e))]
  /\ sessions' = IF task[p].sessionId = Len(sessions)
                 THEN SubSeq(sessions, 1, Len(sessions) - 1)
                 ELSE sessions
  /\ UNCHANGED <<stock, price, orders, tx, lock, now>>

\* createCheckoutSessionWithCart step 5, the call throws: the catch block
\* maps the error and throws; nothing is written.
CreateStripeError(p) ==
  /\ task[p].pc = "stripe"
  /\ \E e \in ThrownErrors :
       task' = [task EXCEPT ![p] =
         Done([task[p] EXCEPT !.errorType = e], classifyError(e))]
  /\ UNCHANGED <<stock, price, orders, tx, lock, sessions, now>>

\* createCheckoutSessionWithCart step 6: the entity, now with the Stripe id,
\* is saved again.
CreateLateSave(p) ==
  /\ task[p].pc = "ckSave"
  /\ sessions' = saveSession(task[p].sessionId, task[p].entity)
  /\ task' = [task EXCEPT ![p] = Done(task[p], "ok")]
  /\ UNCHANGED <<stock, price, orders, tx, lock, now>>

\* getCheckoutSession, called through the controller.
GetCheckoutSession(p) ==
  /\ task[p].pc = "idle"
  /\ \E sessionId \in SessionIds :
       LET t == [task[p] EXCEPT !.op = "getCheckout", !.sessionId = sessionId]
       IN  task' = [task EXCEPT ![p] =
             IF findPendingSession(sessionId)
             THEN Done([t EXCEPT !.entity = sessions[sessionId]], "ok")
             ELSE Done(t, "NotFound")]
  /\ UNCHANGED <<stock, price, orders, tx, lock, sessions, now>>

\* Variant of CompleteRead that retrieves the session by id alone, whatever
\* its status.
CompleteReadAnyStatus(p) ==
  /\ task[p].pc = "idle"
  /\ \E sessionId \in SessionIds :
       LET t == [task[p] EXCEPT !.op = "completeCheckout",
                                !.sessionId = sessionId]
       IN  task' = [task EXCEPT ![p] =
             IF sessionId \in 1..Len(sessions)
             THEN [t EXCEPT !.pc = "coSave",
                            !.entity = [sessions[sessionId] EXCEPT
                                          !.status = "completed"]]
             ELSE Done(t, "NotFound")]
  /\ UNCHANGED <<stock, price, orders, tx, lock, sessions, now>>

\* completeCheckoutSession up to the save: getCheckoutSession, then the
\* status of the entity is set.
CompleteRead(p) ==
  /\ task[p].pc = "idle"
  /\ \E sessionId \in SessionIds :
       LET t == [task[p] EXCEPT !.op = "completeCheckout",
                                !.sessionId = sessionId]
       IN  task' = [task EXCEPT ![p] =
             IF findPendingSession(sessionId)
             THEN [t EXCEPT !.pc = "coSave",
                            !.entity = [sessions[sessionId] EXCEPT
                                          !.status = "completed"]]
             ELSE Done(t, "NotFound")]
  /\ UNCHANGED <<stock, price, orders, tx, lock, sessions, now>>

\* completeCheckoutSession: checkoutSessionRepo.save(session).
CompleteSave(p) ==
  /\ task[p].pc = "coSave"
  /\ sessions' = saveSession(task[p].sessionId, task[p].entity)
  /\ task' = [task EXCEPT ![p] = Done(task[p], "ok")]
  /\ UNCHANGED <<stock, price, orders, tx, lock, now>>

\* An hour passes.
Tick ==
  /\ now < MaxTime
  /\ now' = now + 1
  /\ UNCHANGED <<stock, price, orders, task, tx, lock, sessions>>

NextCheckout ==
  \/ \E p \in Procs :
       \/ CreateSave(p)
       \/ CreateStripeOk(p)
       \/ CreateStripeError(p)
       \/ CreateLateSave(p)
       \/ GetCheckoutSession(p)
       \/ CompleteRead(p)
       \/ CompleteSave(p)
  \/ Tick

SpecCheckout == InitCheckout /\ [][NextCheckout]_vars

\* ========================================================================
\* Properties of checkout sessions (checked under SpecCheckout)
\* ========================================================================

\* C14: every step leaves the status of a session alone or takes it from
\* pending to completed or expired, and changes no field of a session whose
\* status is not pending.
C14_NonPendingImmutable ==
  [][\A s \in 1..Len(sessions) :
       /\ sessions'[s].status # sessions[s].status
            => /\ sessions[s].status = "pending"
               /\ sessions'[s].status \in {"completed", "expired"}
       /\ sessions[s].status # "pending" => sessions'[s] = sessions[s]]_vars

\* Task p takes, in this step, a call of operation opname on a session.
SessionCallStep(p, opname) ==
  task[p].pc = "idle" /\ task'[p].op = opname

\* C13: a completeCheckoutSession call that finds the session completed ends
\* with NotFound and writes nothing, and no step changes the cart (items and
\* total) a session was created with.
C13_CompletedNotCompletedAgain ==
  [][/\ \A s \in 1..Len(sessions) : sessions'[s].cartData = sessions[s].cartData
     /\ \A p \in Procs :
          ( /\ SessionCallStep(p, "completeCheckout")
            /\ task'[p].sessionId \in 1..Len(sessions)
            /\ sessions[task'[p].sessionId].status = "completed" )
          => /\ task'[p].pc = "done"
             /\ task'[p].result = "NotFound"
             /\ sessions' = sessions]_vars

\* C13 witness: the session of u1 was completed by one call, a second call
\* for it ended with NotFound, and the row has the cart it was created with.
C13_Witness ==
  \E p, q \in Procs :
    /\ task[p].op = "completeCheckout" /\ task[p].sessionId = 1
    /\ task[p].pc = "done" /\ task[p].result = "ok"
    /\ task[q].op = "completeCheckout" /\ task[q].sessionId = 1
    /\ task[q].pc = "done" /\ task[q].result = "NotFound"
    /\ sessions[1].status = "completed"
    /\ sessions[1].cartData = SeedSession.cartData

\* C15: a getCheckoutSession call returns the row when a row with that id
\* exists and is pending, ends with NotFound otherwise (no such row, or a row
\* that is completed or expired), and writes nothing either way.
C15_GetOnlyPending ==
  [][\A p \in Procs : SessionCallStep(p, "getCheckout") =>
       LET s == task'[p].sessionId
       IN  /\ task'[p].pc = "done"
           /\ IF s \in 1..Len(sessions) /\ sessions[s].status = "pending"
              THEN task'[p].result = "ok" /\ task'[p].entity = sessions[s]
              ELSE task'[p].result = "NotFound"
           /\ UNCHANGED <<stock, price, orders, tx, lock, sessions>>]_vars

\* C15 witness: getCheckoutSession ended with NotFound for a completed
\* session.
C15_Witness ==
  \E p \in Procs :
    /\ task[p].op = "getCheckout" /\ task[p].pc = "done"
    /\ task[p].result = "NotFound"
    /\ task[p].sessionId = 1
    /\ sessions[1].status = "completed"

\* C16: a getCheckoutSession or completeCheckoutSession call for a session
\* whose expiry the clock has passed ends with NotFound.
C16_ExpiredNotFound ==
  [][\A p \in Procs :
       ( /\ SessionCallStep(p, "getCheckout") \/ SessionCallStep(p, "completeCheckout")
         /\ task'[p].sessionId \in 1..Len(sessions)
         /\ now > sessions[task'[p].sessionId].expiresAt )
       => task'[p].pc = "done" /\ task'[p].result = "NotFound"]_vars

\* C17: when the Stripe call of a createCheckoutSessionWithCart throws, of
\* whatever type, the call ends with an error and the step writes nothing:
\* the row of the first save stays, with the cart of the request, no Stripe
\* id, and the status pending that save gave it (completed only if a
\* completeCheckoutSession call for that id has completed it meanwhile).
C17_StripeFailureKeepsRow ==
  [][\A p \in Procs :
       (task[p].pc = "stripe" /\ task'[p].pc = "done") =>
         LET s == task[p].sessionId
         IN  /\ task'[p].result \in {"BadRequest", "Error"}
             /\ sessions' = sessions
             /\ s \in 1..Len(sessions')
             /\ sessions'[s].cartData = task[p].entity.cartData
             /\ sessions'[s].userId = task[p].entity.userId
             /\ sessions'[s].stripeSessionId = NoOne
             /\ \/ sessions'[s].status = "pending"
                \/ \E q \in Procs :
                     /\ task[q].op = "completeCheckout"
                     /\ task[q].sessionId = s
                     /\ task[q].pc = "done" /\ task[q].result = "ok"]_vars

\* C17 witness: a create call ended with BadRequest on a card error and
\* another on an error that is not a Stripe error; the row of the first is
\* there, pending, with its cart and no Stripe id.
C17_Witness ==
  \E p, q \in Procs :
    /\ task[p].op = "createCheckout" /\ task[p].pc = "done"
    /\ task[p].errorType = "StripeCardError" /\ task[p].result = "BadRequest"
    /\ task[q].op = "createCheckout" /\ task[q].pc = "done"
    /\ task[q].errorType = "Error" /\ task[q].result = "Error"
    /\ task[p].sessionId \in 1..Len(sessions)
    /\ sessions[task[p].sessionId].status = "pending"
    /\ sessions[task[p].sessionId].stripeSessionId = NoOne
    /\ sessions[task[p].sessionId].cartData = task[p].entity.cartData

\* C21: a findOne call ends with NotFound when no order has the identifier;
\* otherwise, for a client, with the order when the client owns it and with
\* Forbidden when another user does; for an administrator, with the order.
\* The call writes nothing.
C21_FindOneOutcomes ==
  [][\A p \in Procs :
       (task[p].pc = "idle" /\ task'[p].op = "findOne") =>
         LET id == task'[p].orderId
             t == task'[p]
         IN  /\ t.pc = "done"
             /\ t.result =
                  IF ~findById(id) THEN "NotFound"
                  ELSE IF t.role = Admin THEN "ok"
                  ELSE IF orders[id].userId = t.userId THEN "ok"
                  ELSE "Forbidden"
             /\ t.result = "ok" =>
                  /\ t.seenOwner = orders[id].userId
                  /\ t.seenStatus = orders[id].status
             /\ UNCHANGED <<stock, price, orders, tx, lock>>]_vars

\* C21 witness: the owner got its order and the administrator got the order
\* of u1.
C21_Witness ==
  \E p, q \in Procs :
    /\ task[p].op = "findOne" /\ task[p].pc = "done"
    /\ task[p].role = Client /\ task[p].userId = "u1"
    /\ task[p].orderId = 1 /\ task[p].result = "ok"
    /\ task[q].op = "findOne" /\ task[q].pc = "done"
    /\ task[q].role = Admin /\ task[q].orderId = 1
    /\ task[q].seenOwner = "u1" /\ task[q].result = "ok"

\* C22: an updateStatus or getStats call whose role is not Admin ends with
\* Forbidden in the step that receives it, having read no order (the task
\* holds nothing of any order) and written nothing.
C22_AdminOnly ==
  [][\A p \in Procs :
       ( /\ task[p].pc = "idle"
         /\ task'[p].op \in {"updateStatus", "getStats"}
         /\ task'[p].role # Admin )
       => /\ task'[p].pc = "done"
          /\ task'[p].result = "Forbidden"
          /\ task'[p].seenOwner = NoOne
          /\ task'[p].total = 0
          /\ UNCHANGED <<stock, price, orders, tx, lock>>]_vars

\* C22 witness: a client was refused updateStatus on the existing order 1 and
\* a client was refused getStats.
C22_Witness ==
  \E p, q \in Procs :
    /\ task[p].op = "updateStatus" /\ task[p].pc = "done"
    /\ task[p].role = Client /\ task[p].orderId = 1
    /\ task[p].result = "Forbidden"
    /\ task[q].op = "getStats" /\ task[q].pc = "done"
    /\ task[q].role = Client /\ task[q].result = "Forbidden"
    /\ findById(1)

C25_EmptyOrBadQuantityRejected ==
  [][\A p \in Procs :
       ( /\ task[p].pc = "idle"
         /\ task'[p].op = "place"
         /\ \/ Len(task'[p].items) = 0
            \/ \E k \in 1..Len(task'[p].items) :
                 task'[p].items[k].quantity \notin 1..999 )
       => /\ task'[p].pc = "done"
          /\ task'[p].result = "BadRequest"
          /\ UNCHANGED <<stock, price, orders, tx, lock>>]_vars

\* C25 witness: a request of 1000 units and a request without lines were
\* both rejected by validation.
C25_Witness ==
  \E p, q \in Procs :
    /\ task[p].op = "place" /\ task[p].pc = "done"
    /\ task[p].items = <<Item(1, 1000)>> /\ task[p].result = "BadRequest"
    /\ task[q].op = "place" /\ task[q].pc = "done"
    /\ task[q].items = << >> /\ task[q].result = "BadRequest"
    /\ stock = InitStock /\ orders = << >>

\* ========================================================================
\* Properties of concurrent completions (checked under SpecCheckout)
\* ========================================================================

\* C27: of two completeCheckoutSession calls for the same session at most one
\* has ended in success.
C27_OneCompletionSucceeds ==
  \A p, q \in Procs :
    ( /\ p # q
      /\ task[p].op = "completeCheckout" /\ task[q].op = "completeCheckout"
      /\ task[p].sessionId = task[q].sessionId
      /\ task[p].pc = "done" /\ task[q].pc = "done" )
    => ~(task[p].result = "ok" /\ task[q].result = "ok")

\* ========================================================================
\* Stock adjustment (ProductService.updateStock over
\* ProductRepository.updateStock) and OrderRepository.reduceProductsStock
\* ========================================================================

\* Product identifiers of adjustment requests: product 1 and one that has no
\* row.
AdjustIds == {1, 3}

\* Quantities to add (positive) or to take (negative).
Deltas == {-6, -4, 2}

\* Variant of UpdateStockRead without the test of a negative result.
UpdateStockReadNoFloor(p) ==
  /\ task[p].pc = "idle"
  /\ \E id \in AdjustIds, quantity \in Deltas :
       LET t == [task[p] EXCEPT !.op = "updateStock", !.role = Admin,
                                !.productId = id, !.delta = quantity]
       IN  task' = [task EXCEPT ![p] =
             IF id \notin Products THEN Done(t, "NotFound")
             ELSE [t EXCEPT !.newStock = stock[id] + quantity,
                            !.pc = "skWrite"]]
  /\ UNCHANGED <<stock, price, orders, tx, lock, sessions, now>>

\* ProductRepository.updateStock up to the UPDATE: the transaction opens, the
\* product is read (committed row, no lock); no row: null, which the service
\* turns into NotFoundException; a negative result: Error, rollback.
UpdateStockRead(p) ==
  /\ task[p].pc = "idle"
  /\ \E id \in AdjustIds, quantity \in Deltas :
       LET t == [task[p] EXCEPT !.op = "updateStock", !.role = Admin,
                                !.productId = id, !.delta = quantity]
       IN  task' = [task EXCEPT ![p] =
             IF id \notin Products THEN Done(t, "NotFound")
             ELSE IF stock[id] + quantity < 0 THEN Done(t, "Error")
             ELSE [t EXCEPT !.newStock = stock[id] + quantity,
                            !.pc = "skWrite"]]
  /\ UNCHANGED <<stock, price, orders, tx, lock, sessions, now>>

\* ProductRepository.updateStock: manager.update(Product, {id}, {stock:
\* newStock}).  The UPDATE waits for the row lock and holds it until the
\* transaction ends; it replaces the stock of the row as committed then.
UpdateStockWrite(p) ==
  /\ task[p].pc = "skWrite"
  /\ LET id == task[p].productId
     IN  /\ lock[id] \in {0, p}
         /\ lock' = [lock EXCEPT ![id] = p]
         /\ tx' = [tx EXCEPT ![p].dec[id] = stock[id] - task[p].newStock]
  /\ task' = [task EXCEPT ![p].pc = "skCommit"]
  /\ UNCHANGED <<stock, price, orders, sessions, now>>

\* ProductRepository.updateStock: the closing findOne, then the transaction
\* commits and the service returns the product.
UpdateStockCommit(p) ==
  /\ task[p].pc = "skCommit"
  /\ stock' = commitStock(p)
  /\ tx' = [tx EXCEPT ![p] = NoTx]
  /\ lock' = Released(p)
  /\ task' = [task EXCEPT ![p] = Done(task[p], "ok")]
  /\ UNCHANGED <<price, orders, sessions, now>>

NextAdjust ==
  \E p \in Procs :
    \/ UpdateStockRead(p)
    \/ UpdateStockWrite(p)
    \/ UpdateStockCommit(p)

\* Stock adjustments alone.
SpecAdjust == Init /\ [][NextAdjust]_vars

\* C30: an updateStock call for a product without a row ends with no product
\* and no change; for product id with delta d it reads the stock and, when
\* that stock + d is negative, ends with an error and no change; otherwise
\* the call ends by setting the stock to the stock it read + d; and no step
\* leaves a stock negative.
C30_UpdateStockFloor ==
  [][/\ \A q \in Products : stock'[q] >= 0
     /\ \A p \in Procs :
          /\ (task[p].pc = "idle" /\ task'[p].op = "updateStock") =>
               LET id == task'[p].productId
                   d == task'[p].delta
               IN  /\ UNCHANGED <<stock, price, orders, tx, lock>>
                   /\ IF id \notin Products
                      THEN task'[p].pc = "done" /\ task'[p].result = "NotFound"
                      ELSE IF stock[id] + d < 0
                      THEN task'[p].pc = "done" /\ task'[p].result = "Error"
                      ELSE /\ task'[p].pc = "skWrite"
                           /\ task'[p].newStock = stock[id] + d
          /\ (task[p].pc = "skCommit" /\ task'[p].pc = "done") =>
               /\ task'[p].result = "ok"
               /\ stock'[task[p].productId] = task[p].newStock
               /\ \A q \in Products \ {task[p].productId} :
                    stock'[q] = stock[q]]_vars

\* C30 witness: one adjustment took 4 of the 5 units of product 1 and the
\* next one, asking 4 more, ended with the error and left the 1 unit.
C30_Witness ==
  \E p, q \in Procs :
    /\ task[p].op = "updateStock" /\ task[p].pc = "done"
    /\ task[p].delta = -4 /\ task[p].result = "ok"
    /\ task[q].op = "updateStock" /\ task[q].pc = "done"
    /\ task[q].delta = -4 /\ task[q].result = "Error"
    /\ stock[1] = 1

\* Requests of the placements that run beside stock adjustments.
StockRequests == { <<Item(1, 3)>>, <<Item(2, 2), Item(1, 2)>> }

PlaceStartStock(p) == PlaceStartWith(p, {"u1"}, StockRequests)

NextStock ==
  \E p \in Procs :
    \/ PlaceStartStock(p)
    \/ PlaceCheck(p)
    \/ PlaceTxUser(p)
    \/ PlaceTxProducts(p)
    \/ PlaceTxSaveOrder(p)
    \/ PlaceTxSaveItem(p)
    \/ PlaceTxDecr(p)
    \/ PlaceTxCommit(p)
    \/ PlaceTxFail(p)
    \/ UpdateStockRead(p)
    \/ UpdateStockWrite(p)
    \/ UpdateStockCommit(p)

\* Order placements beside stock adjustments.
SpecStock == Init /\ [][NextStock]_vars

\* C24: when a placement taking q units of product 1 and an adjustment of
\* product 1 by d have both succeeded, and nothing else ran, the stock of
\* product 1 is its initial stock - q + d.
C24_NoLostUpdate ==
  \A p, q \in Procs :
    ( /\ task[p].op = "place" /\ task[p].pc = "done" /\ task[p].result = "ok"
      /\ task[q].op = "updateStock" /\ task[q].pc = "done"
      /\ task[q].result = "ok" /\ task[q].productId = 1
      /\ \A r \in Procs \ {p, q} : task[r].pc = "idle" )
    => stock[1] = InitStock[1] - RequestedOf(task[p].items, 1) + task[q].delta

\* ------------------------------------------------------------------------
\* OrderRepository.reduceProductsStock
\* ------------------------------------------------------------------------
\* Item lists handed to reduceProductsStock.
ReduceRequests ==
  { <<Item(1, 3)>>, <<Item(2, 2), Item(1, 6)>>, <<Item(1, 2), Item(2, 4)>> }

\* reduceProductsStock: the transaction opens.
ReduceStart(p) ==
  /\ task[p].pc = "idle"
  /\ \E its \in ReduceRequests :
       task' = [task EXCEPT ![p] =
         [@ EXCEPT !.op = "reduceProductsStock", !.items = its, !.i = 1,
                   !.pc = "rdUpdate"]]
  /\ UNCHANGED <<stock, price, orders, tx, lock, sessions, now>>

\* reduceProductsStock: manager.update(Product, {id}, stock - quantity) of
\* item i, whatever the stock of the row; the UPDATE takes the row lock.
ReduceUpdate(p) ==
  /\ task[p].pc = "rdUpdate"
  /\ LET item == task[p].items[task[p].i]
     IN  /\ lock[item.productId] \in {0, p}
         /\ lock' = [lock EXCEPT ![item.productId] = p]
         /\ tx' = [tx EXCEPT ![p].dec[item.productId] =
                                   @ + decrementBy(item.quantity)]
  /\ task' = [task EXCEPT ![p] =
                IF task[p].i < Len(task[p].items)
                THEN [task[p] EXCEPT !.i = @ + 1]
                ELSE [task[p] EXCEPT !.pc = "rdCommit"]]
  /\ UNCHANGED <<stock, price, orders, sessions, now>>

\* reduceProductsStock: the transaction commits and the call returns true.
ReduceCommit(p) ==
  /\ task[p].pc = "rdCommit"
  /\ stock' = commitStock(p)
  /\ tx' = [tx EXCEPT ![p] = NoTx]
  /\ lock' = Released(p)
  /\ task' = [task EXCEPT ![p] = Done(task[p], "true")]
  /\ UNCHANGED <<price, orders, sessions, now>>

\* reduceProductsStock: a statement fails in the persistence layer, the
\* transaction rolls back, the catch block returns false.
ReduceFail(p) ==
  /\ task[p].pc \in {"rdUpdate", "rdCommit"}
  /\ stock' = rollbackStock(p)
  /\ tx' = [tx EXCEPT ![p] = NoTx]
  /\ lock' = Released(p)
  /\ task' = [task EXCEPT ![p] = Done(task[p], "false")]
  /\ UNCHANGED <<price, orders, sessions, now>>

NextReduce ==
  \E p \in Procs :
    \/ ReduceStart(p)
    \/ ReduceUpdate(p)
    \/ ReduceCommit(p)
    \/ ReduceFail(p)

SpecReduce == Init /\ [][NextReduce]_vars

\* C26: a reduceProductsStock call that finds less stock than an item asks
\* returns false and changes no stock, one that returns true has taken every
\* listed quantity from a stock that covered it, and no stock is negative.
C26_DecrementIfAvailable ==
  [][/\ \A q \in Products : stock'[q] >= 0
     /\ \A p \in Procs :
          (task[p].op = "reduceProductsStock" /\ task[p].pc # "done"
             /\ task'[p].pc = "done") =>
            IF \A q \in Products : stock[q] >= RequestedOf(task[p].items, q)
            THEN task'[p].result = "true" =>
                   \A q \in Products :
                     stock'[q] = stock[q] - RequestedOf(task[p].items, q)
            ELSE task'[p].result = "false" /\ stock' = stock]_vars

\* ------------------------------------------------------------------------
\* Order placements and cancellations
\* ------------------------------------------------------------------------
\* Requests of the placements that run beside cancellations.
CancelRequests == { <<Item(1, 3)>>, <<Item(2, 2), Item(1, 3)>>, <<Item(1, 6)>> }

PlaceStartCancel(p) == PlaceStartWith(p, {"u1"}, CancelRequests)

NextPlaceCancel ==
  \E p \in Procs :
    \/ PlaceStartCancel(p)
    \/ PlaceCheck(p)
    \/ PlaceTxUser(p)
    \/ PlaceTxProducts(p)
    \/ PlaceTxSaveOrder(p)
    \/ PlaceTxSaveItem(p)
    \/ PlaceTxDecr(p)
    \/ PlaceTxCommit(p)
    \/ PlaceTxFail(p)
    \/ CancelRead(p)
    \/ CancelWrite(p)

SpecPlaceCancel == Init /\ [][NextPlaceCancel]_vars

\* C29: for each product, the stock plus the quantities of all persisted
\* order items of that product, those of cancelled orders included, is the
\* initial stock.
C29_StockConservation ==
  \A q \in Products : stock[q] + SoldIn(orders, q) = InitStock[q]

\* C29 witness: an order taking 3 units of product 1 was placed and then
\* cancelled; the stock of product 1 is 2 and the cancelled order has its 3.
C29_Witness ==
  \E p, c \in Procs :
    /\ task[p].op = "place" /\ task[p].pc = "done" /\ task[p].result = "ok"
    /\ task[c].op = "cancel" /\ task[c].pc = "done" /\ task[c].result = "ok"
    /\ task[c].orderId = task[p].orderId
    /\ orders[task[p].orderId].deleted
    /\ stock[1] = 2
    /\ SoldIn(orders, 1) = 3

====
